---- MODULE Spec2Model ----
(***************************************************************************)
(* Model of src/hyper_http.rs: the HyperTransport JSON-RPC-over-HTTP       *)
(* transport, its Builder, and one blocking request/response exchange.     *)
(*                                                                         *)
(* Strings are sequences of one-character strings, so that parsing,        *)
(* formatting and base64 encoding are computed character by character.     *)
(***************************************************************************)
EXTENDS Integers, Sequences, FiniteSets, TLC

VARIABLES
    phase,          \* "builder" | "failed" (url() returned Err, no builder left) | "transport"
    uri,            \* HyperTransport.uri, a parsed Uri record
    timeout,        \* HyperTransport.timeout, in clock ticks
    basic_auth,     \* HyperTransport.basic_auth: None or the header value
    url_result,     \* result of the last Builder::url call
    last_auth,      \* the last auth / cookie_auth call on this builder: its arguments,
                    \* and whether it replaced an earlier value
    rendered,       \* result of the last fmt_target call
    pc,             \* position of the thread inside request()
    now,            \* Instant::now()
    request_deadline, \* the local of request()
    call,           \* the call in flight: which method, and its argument
    wire,           \* the hyper::Request handed to client.request, or None
    posts,          \* number of client.request calls made by the current call
    status,         \* HTTP status of the response head received, or 0
    exchange,       \* how the HTTP exchange of the current call went
    response_body,  \* bytes collected by hyper::body::to_bytes, or None
    result          \* value returned by send_request / send_batch

vars == <<phase, uri, timeout, basic_auth, url_result, last_auth, rendered,
          pc, now, request_deadline, call, wire, posts, status, exchange,
          response_body, result>>

builderVars == <<phase, uri, timeout, basic_auth, url_result, last_auth>>
callVars == <<pc, now, request_deadline, call, wire, posts, status, exchange,
              response_body, result>>

None == [none |-> TRUE]

(***************************************************************************)
(* Bounds of the model.                                                    *)
(***************************************************************************)
MaxTimeout == 2     \* timeouts the builder is given: 1..MaxTimeout ticks
MaxTime == 4        \* the clock stops ticking here
MaxBatch == 2       \* longest batch sent and longest array answered

(***************************************************************************)
(* Characters.                                                             *)
(***************************************************************************)
Digits == <<"0", "1", "2", "3", "4", "5", "6", "7", "8", "9">>
Upper == <<"A", "B", "C", "D", "E", "F", "G", "H", "I", "J", "K", "L", "M",
           "N", "O", "P", "Q", "R", "S", "T", "U", "V", "W", "X", "Y", "Z">>
Lower == <<"a", "b", "c", "d", "e", "f", "g", "h", "i", "j", "k", "l", "m",
           "n", "o", "p", "q", "r", "s", "t", "u", "v", "w", "x", "y", "z">>

\* Printable ASCII, code 32 first ("GRAVE" stands for the grave accent, code 96).
AsciiTable ==
    <<" ", "!", "\"", "#", "$", "%", "&", "'", "(", ")", "*", "+", ",", "-", ".", "/">>
    \o Digits \o <<":", ";", "<", "=", ">", "?", "@">>
    \o Upper \o <<"[", "\\", "]", "^", "_", "GRAVE">>
    \o Lower \o <<"{", "|", "}", "~">>

\* The byte of a character (str::as_bytes on ASCII text).
Ord(c) == 31 + CHOOSE i \in 1..Len(AsciiTable) : AsciiTable[i] = c

AsBytes(s) == [i \in 1..Len(s) |-> Ord(s[i])]

Range(s) == {s[i] : i \in 1..Len(s)}

IsDigit(c) == c \in Range(Digits)
IsAlpha(c) == c \in Range(Upper) \cup Range(Lower)

DigitVal(c) == (CHOOSE i \in 1..10 : Digits[i] = c) - 1


ToLower(c) ==
    IF c \in Range(Upper) THEN Lower[CHOOSE i \in 1..26 : Upper[i] = c] ELSE c

\* s[from..to] as a sequence (empty when from > to).
Slice(s, from, to) == [i \in 1..(IF to >= from THEN to - from + 1 ELSE 0) |-> s[from + i - 1]]

\* Index of the first / last occurrence of c in s, 0 when absent.
IndexOf(s, c) ==
    IF c \in Range(s) THEN CHOOSE i \in 1..Len(s) : s[i] = c /\ \A j \in 1..(i - 1) : s[j] # c
    ELSE 0
LastIndexOf(s, c) ==
    IF c \in Range(s) THEN CHOOSE i \in 1..Len(s) : s[i] = c /\ \A j \in (i + 1)..Len(s) : s[j] # c
    ELSE 0

\* Whether sub occurs in s as a contiguous substring.
Contains(s, sub) ==
    \E i \in 1..(Len(s) - Len(sub) + 1) : Slice(s, i, i + Len(sub) - 1) = sub

(***************************************************************************)
(* base64::encode: standard alphabet, '=' padding.                         *)
(***************************************************************************)
Base64Alphabet == Upper \o Lower \o Digits \o <<"+", "/">>

\* One group of 1..3 input bytes gives 4 output characters.
Base64Group(b) ==
    LET n  == Len(b)
        b1 == b[1]
        b2 == IF n >= 2 THEN b[2] ELSE 0
        b3 == IF n >= 3 THEN b[3] ELSE 0
        c1 == b1 \div 4
        c2 == (b1 % 4) * 16 + (b2 \div 16)
        c3 == (b2 % 16) * 4 + (b3 \div 64)
        c4 == b3 % 64
    IN  << Base64Alphabet[c1 + 1],
           Base64Alphabet[c2 + 1],
           IF n >= 2 THEN Base64Alphabet[c3 + 1] ELSE "=",
           IF n >= 3 THEN Base64Alphabet[c4 + 1] ELSE "=" >>

RECURSIVE Base64Encode(_)
Base64Encode(bytes) ==
    IF Len(bytes) = 0 THEN <<>>
    ELSE IF Len(bytes) <= 3 THEN Base64Group(bytes)
    ELSE Base64Group(Slice(bytes, 1, 3)) \o Base64Encode(Slice(bytes, 4, Len(bytes)))

BasicPrefix == <<"B", "a", "s", "i", "c", " ">>

(***************************************************************************)
(* str::parse::<u16> and the Display of a u16.                             *)
(***************************************************************************)
U16Max == 65535

RECURSIVE DigitsValue(_)
DigitsValue(s) ==
    IF Len(s) = 0 THEN 0
    ELSE 10 * DigitsValue(Slice(s, 1, Len(s) - 1)) + DigitVal(s[Len(s)])

\* Some(n) as [some |-> n], None on an empty, non-numeric or overflowing text.
ParseU16(s) ==
    LET body == IF Len(s) > 0 /\ s[1] = "+" THEN Slice(s, 2, Len(s)) ELSE s
    IN  IF Len(body) = 0 \/ \E i \in 1..Len(body) : ~IsDigit(body[i]) THEN None
        ELSE IF Len(body) > 5 /\ \E i \in 1..(Len(body) - 5) : body[i] # "0" THEN None
        ELSE IF DigitsValue(body) > U16Max THEN None
        ELSE [some |-> DigitsValue(body)]

RECURSIVE U16ToString(_)
U16ToString(n) ==
    IF n < 10 THEN <<Digits[n + 1]>>
    ELSE U16ToString(n \div 10) \o <<Digits[(n % 10) + 1]>>


(***************************************************************************)
(* http::Uri, as Uri::from_str parses it and as its accessors read it.     *)
(* A Uri is [scheme, authority, path_and_query, query]: scheme is "none",  *)
(* "http", "https" or "other"; authority and path_and_query are texts      *)
(* (empty when absent); query is the index of '?' in path_and_query or 0.  *)
(***************************************************************************)
UriErr(kind) == [ok |-> FALSE, err |-> kind]
UriOk(scheme, authority, pq, query) ==
    [ok |-> TRUE,
     uri |-> [scheme |-> scheme, authority |-> authority,
              path_and_query |-> pq, query |-> query]]

\* Bytes the URI_CHARS table maps to 0 (not allowed in an authority).
UriInvalidChars == {" ", "\"", "%", "<", ">", "\\", "^", "GRAVE", "{", "|", "}"}

SchemeChar(c) == IsAlpha(c) \/ IsDigit(c) \/ c \in {"+", "-", "."}

HttpPrefix == <<"h", "t", "t", "p", ":", "/", "/">>
HttpsPrefix == <<"h", "t", "t", "p", "s", ":", "/", "/">>

HasPrefixIgnoreCase(s, pre) ==
    /\ Len(s) >= Len(pre)
    /\ \A i \in 1..Len(pre) : ToLower(s[i]) = pre[i]

\* Scheme2::parse: [kind, len] where len is the length of "scheme://".
RECURSIVE OtherScheme(_, _)
OtherScheme(s, i) ==
    IF i > Len(s) THEN [kind |-> "none", len |-> 0]
    ELSE IF s[i] = ":" THEN
        IF Len(s) < i + 2 THEN [kind |-> "none", len |-> 0]
        ELSE IF Slice(s, i + 1, i + 2) # <<"/", "/">> THEN [kind |-> "none", len |-> 0]
        ELSE [kind |-> "other", len |-> i + 2]
    ELSE IF ~SchemeChar(s[i]) THEN [kind |-> "none", len |-> 0]
    ELSE OtherScheme(s, i + 1)

SchemeParse(s) ==
    IF HasPrefixIgnoreCase(s, HttpPrefix) THEN [kind |-> "http", len |-> 7]
    ELSE IF HasPrefixIgnoreCase(s, HttpsPrefix) THEN [kind |-> "https", len |-> 8]
    ELSE IF Len(s) > 3 THEN OtherScheme(s, 1)
    ELSE [kind |-> "none", len |-> 0]

\* Authority::parse: scans to the first '/', '?' or '#'; acc carries the
\* loop's locals.  Returns [ok, end] with end the authority's length.
RECURSIVE AuthorityScan(_, _, _)
AuthorityScan(s, i, acc) ==
    IF i > Len(s) \/ s[i] \in {"/", "?", "#"} THEN
        LET end == i - 1 IN
        IF acc.start_bracket # acc.end_bracket THEN UriErr("InvalidAuthority")
        ELSE IF acc.colon_cnt > 1 THEN UriErr("InvalidAuthority")
        ELSE IF end > 0 /\ acc.at_sign_pos = end THEN UriErr("InvalidAuthority")
        ELSE IF acc.has_percent THEN UriErr("InvalidAuthority")
        ELSE [ok |-> TRUE, end |-> end]
    ELSE IF s[i] = ":" THEN
        AuthorityScan(s, i + 1, [acc EXCEPT !.colon_cnt = @ + 1])
    ELSE IF s[i] = "[" THEN
        IF acc.has_percent \/ acc.start_bracket THEN UriErr("InvalidAuthority")
        ELSE AuthorityScan(s, i + 1, [acc EXCEPT !.start_bracket = TRUE])
    ELSE IF s[i] = "]" THEN
        IF acc.end_bracket THEN UriErr("InvalidAuthority")
        ELSE AuthorityScan(s, i + 1,
                 [acc EXCEPT !.end_bracket = TRUE, !.colon_cnt = 0, !.has_percent = FALSE])
    ELSE IF s[i] = "@" THEN
        AuthorityScan(s, i + 1,
            [acc EXCEPT !.at_sign_pos = i, !.colon_cnt = 0, !.has_percent = FALSE])
    ELSE IF s[i] = "%" THEN
        AuthorityScan(s, i + 1, [acc EXCEPT !.has_percent = TRUE])
    ELSE IF s[i] \in UriInvalidChars THEN UriErr("InvalidUriChar")
    ELSE AuthorityScan(s, i + 1, acc)

AuthorityParse(s) ==
    AuthorityScan(s, 1, [colon_cnt |-> 0, start_bracket |-> FALSE, end_bracket |-> FALSE,
                         has_percent |-> FALSE, at_sign_pos |-> 0])

\* Bytes PathAndQuery::from_shared accepts in the path and in the query.
PathChar(c) ==
    LET b == Ord(c) IN
    \/ b = 33 \/ (b >= 36 /\ b <= 59) \/ b = 61 \/ (b >= 64 /\ b <= 95)
    \/ (b >= 97 /\ b <= 122) \/ b = 124 \/ b = 126
    \/ c \in {"\"", "{", "}"}
QueryChar(c) ==
    LET b == Ord(c) IN
    b = 33 \/ (b >= 36 /\ b <= 59) \/ b = 61 \/ (b >= 63 /\ b <= 126)

\* PathAndQuery::from_shared: the fragment is cut off, '?' starts the query.
PathAndQueryParse(s) ==
    LET f    == IndexOf(s, "#")
        data == IF f = 0 THEN s ELSE Slice(s, 1, f - 1)
        q    == IndexOf(data, "?")
        pend == IF q = 0 THEN Len(data) ELSE q - 1
    IN  IF \E i \in 1..pend : ~PathChar(data[i]) THEN UriErr("InvalidUriChar")
        ELSE IF q # 0 /\ \E i \in (q + 1)..Len(data) : ~QueryChar(data[i])
             THEN UriErr("InvalidUriChar")
        ELSE [ok |-> TRUE, data |-> data, query |-> q]

\* Uri::parse_full.
ParseFull(s) ==
    LET sch  == SchemeParse(s)
        rest == Slice(s, sch.len + 1, Len(s))
        auth == AuthorityParse(rest)
    IN  IF ~auth.ok THEN auth
        ELSE IF sch.kind = "none" THEN
            IF auth.end # Len(rest) THEN UriErr("InvalidFormat")
            ELSE UriOk("none", rest, <<>>, 0)
        ELSE IF auth.end = 0 THEN UriErr("InvalidFormat")
        ELSE LET pq == PathAndQueryParse(Slice(rest, auth.end + 1, Len(rest)))
             IN  IF ~pq.ok THEN pq
                 ELSE UriOk(sch.kind, Slice(rest, 1, auth.end), pq.data, pq.query)

\* Uri::from_str (Uri::from_shared).
ParseUri(s) ==
    IF Len(s) = 0 THEN UriErr("Empty")
    ELSE IF Len(s) = 1 THEN
        IF s[1] = "/" THEN UriOk("none", <<>>, <<"/">>, 0)
        ELSE IF s[1] = "*" THEN UriOk("none", <<>>, <<"*">>, 0)
        ELSE LET auth == AuthorityParse(s)
             IN  IF ~auth.ok THEN auth
                 ELSE IF auth.end # Len(s) THEN UriErr("InvalidUriChar")
                 ELSE UriOk("none", s, <<>>, 0)
    ELSE IF s[1] = "/" THEN
        LET pq == PathAndQueryParse(s)
        IN  IF ~pq.ok THEN pq ELSE UriOk("none", <<>>, pq.data, pq.query)
    ELSE ParseFull(s)

\* Uri::host: None without an authority.
UriHost(u) ==
    IF Len(u.authority) = 0 THEN None
    ELSE LET at        == LastIndexOf(u.authority, "@")
             host_port == Slice(u.authority, at + 1, Len(u.authority))
         IN  IF Len(host_port) > 0 /\ host_port[1] = "[" THEN
                 [some |-> Slice(host_port, 1, IndexOf(host_port, "]"))]
             ELSE IF IndexOf(host_port, ":") = 0 THEN [some |-> host_port]
             ELSE [some |-> Slice(host_port, 1, IndexOf(host_port, ":") - 1)]

\* Uri::port: the text after the authority's last ':' when it is a u16.
UriPort(u) ==
    LET c == LastIndexOf(u.authority, ":")
    IN  IF Len(u.authority) = 0 \/ c = 0 THEN None
        ELSE ParseU16(Slice(u.authority, c + 1, Len(u.authority)))

\* Uri::path: "" for an authority-form Uri, "/" for an empty path after a scheme.
UriPath(u) ==
    IF Len(u.path_and_query) = 0 /\ u.scheme = "none" THEN <<>>
    ELSE LET ret == IF u.query = 0 THEN u.path_and_query
                    ELSE Slice(u.path_and_query, 1, u.query - 1)
         IN  IF Len(ret) = 0 THEN <<"/">> ELSE ret


(***************************************************************************)
(* Inputs of the builder.                                                  *)
(***************************************************************************)
\* Uri::from_static("127.0.0.1:8332")
DefaultUrl == <<"1", "2", "7", ".", "0", ".", "0", ".", "1", ":", "8", "3", "3", "2">>
DefaultTimeout == 2     \* Duration::from_secs(2)

\* "localhost:22", the endpoint of tests::construct
TestUrl == <<"l", "o", "c", "a", "l", "h", "o", "s", "t", ":", "2", "2">>

UrlSchemes == { <<>>, HttpPrefix, <<"s", ":", "/", "/">> }
UrlHosts == { <<>>, <<"h">>, <<" ">> }
UrlPorts == { <<>>, <<":", "8">>, <<":", "0", "8">>, <<":">>, <<":", "x">>,
              <<":", "7", "0", "0", "0", "0">> }
UrlPaths == { <<>>, <<"/">>, <<"/", "p">>, <<"/", " ">> }

\* The texts handed to Builder::url.
Urls ==
    { sc \o h \o po \o pa : sc \in UrlSchemes, h \in UrlHosts, po \in UrlPorts, pa \in UrlPaths }
    \cup { DefaultUrl, TestUrl, <<"*">> }

Users == { <<"a", "l", "i", "c", "e">>, <<"u">> }
Passwords == { None, [some |-> <<"s", "e", "c", "r", "e", "t">>], [some |-> <<>>] }
Cookies == { <<"t", "o", "k", "1", "2", "3">>, <<"u", ":">> }
Timeouts == 1..MaxTimeout

(***************************************************************************)
(* HyperTransport and its Builder.                                         *)
(***************************************************************************)
\* HyperTransport::new(): the fields of a fresh transport.
HyperTransport_new ==
    [uri |-> ParseUri(DefaultUrl).uri, timeout |-> DefaultTimeout, basic_auth |-> None]

\* The header value Builder::auth computes.
AuthHeader(user, pass) ==
    LET auth == user \o <<":">> \o (IF pass = None THEN <<>> ELSE pass.some)
    IN  BasicPrefix \o Base64Encode(AsBytes(auth))

\* The header value Builder::cookie_auth computes.
CookieHeader(cookie) == BasicPrefix \o Base64Encode(AsBytes(cookie))

\* The transport the builder holds / the built transport.
Transport == [uri |-> uri, timeout |-> timeout, basic_auth |-> basic_auth]

\* fmt_target as it would be if it wrote the credentials as userinfo.
FmtTargetOf_with_userinfo(t) ==
    IF UriHost(t.uri) = None \/ UriPort(t.uri) = None THEN [panicked |-> TRUE]
    ELSE [panicked |-> FALSE,
          text |-> HttpPrefix
                   \o (IF t.basic_auth = None THEN <<>> ELSE t.basic_auth.some \o <<"@">>)
                   \o UriHost(t.uri).some \o <<":">>
                   \o U16ToString(UriPort(t.uri).some) \o UriPath(t.uri)]

\* What fmt_target writes for transport t: a panic when host() or port() is
\* None (the unwraps), else "http://{host}:{port}{path}".
FmtTargetOf(t) ==
    IF UriHost(t.uri) = None \/ UriPort(t.uri) = None THEN [panicked |-> TRUE]
    ELSE [panicked |-> FALSE,
          text |-> HttpPrefix \o UriHost(t.uri).some \o <<":">>
                   \o U16ToString(UriPort(t.uri).some) \o UriPath(t.uri)]

Idle ==
    /\ pc = "idle" /\ now = 0 /\ request_deadline = 0 /\ call = None /\ wire = None
    /\ posts = 0 /\ status = 0 /\ exchange = "none" /\ response_body = None
    /\ result = None

\* Builder::new()
Builder_new ==
    /\ phase' = "builder"
    /\ uri' = HyperTransport_new.uri
    /\ timeout' = HyperTransport_new.timeout
    /\ basic_auth' = HyperTransport_new.basic_auth
    /\ url_result' = None
    /\ last_auth' = None
    /\ rendered' = None
    /\ UNCHANGED callVars

\* Builder::timeout
Builder_timeout(t) ==
    /\ phase = "builder"
    /\ timeout' = t
    /\ UNCHANGED <<phase, uri, basic_auth, url_result, last_auth, rendered>>
    /\ UNCHANGED callVars

\* Builder::url: the parse error is wrapped in crate::Error::Transport and the
\* builder is consumed.
Builder_url(url) ==
    /\ phase = "builder"
    /\ LET r == ParseUri(url) IN
       IF r.ok
       THEN /\ uri' = r.uri
            /\ url_result' = [ok |-> TRUE, url |-> url]
            /\ UNCHANGED phase
            /\ UNCHANGED <<timeout, basic_auth, last_auth>>
       ELSE \* `?` returns the Err; self, moved into url(), is dropped with its fields
            /\ url_result' = [ok |-> FALSE, url |-> url, kind |-> "Transport",
                              panicked |-> FALSE]
            /\ phase' = "failed"
            /\ uri' = HyperTransport_new.uri
            /\ timeout' = HyperTransport_new.timeout
            /\ basic_auth' = HyperTransport_new.basic_auth
            /\ last_auth' = None
    /\ UNCHANGED rendered
    /\ UNCHANGED callVars

\* Builder::auth
Builder_auth(user, pass) ==
    /\ phase = "builder"
    /\ basic_auth' = [some |-> AuthHeader(user, pass)]
    /\ last_auth' = [op |-> "auth", user |-> user, pass |-> pass,
                     replaced |-> basic_auth # None]
    /\ UNCHANGED <<phase, uri, timeout, url_result, rendered>>
    /\ UNCHANGED callVars

\* Builder::cookie_auth as it would be if a value already set were kept.
Builder_cookie_auth_keeps_first(cookie) ==
    /\ phase = "builder"
    /\ basic_auth' = IF basic_auth = None THEN [some |-> CookieHeader(cookie)] ELSE basic_auth
    /\ last_auth' = [op |-> "cookie_auth", cookie |-> cookie,
                     replaced |-> basic_auth # None]
    /\ UNCHANGED <<phase, uri, timeout, url_result, rendered>>
    /\ UNCHANGED callVars

\* Builder::cookie_auth
Builder_cookie_auth(cookie) ==
    /\ phase = "builder"
    /\ basic_auth' = [some |-> CookieHeader(cookie)]
    /\ last_auth' = [op |-> "cookie_auth", cookie |-> cookie,
                     replaced |-> basic_auth # None]
    /\ UNCHANGED <<phase, uri, timeout, url_result, rendered>>
    /\ UNCHANGED callVars

\* Builder::build
Builder_build ==
    /\ phase = "builder"
    /\ phase' = "transport"
    /\ UNCHANGED <<uri, timeout, basic_auth, url_result, last_auth, rendered>>
    /\ UNCHANGED callVars

\* Client::hyper_http(url, user, pass): Builder::new().url(url)?, auth when a
\* user is given, build.
Client_hyper_http(url, user, pass) ==
    /\ phase = "builder" /\ Transport = HyperTransport_new   \* its own Builder::new()
    /\ url_result = None /\ last_auth = None
    /\ LET r == ParseUri(url) IN
       IF r.ok
       THEN /\ uri' = r.uri
            /\ url_result' = [ok |-> TRUE, url |-> url]
            /\ phase' = "transport"
            /\ IF user # None
               THEN /\ basic_auth' = [some |-> AuthHeader(user.some, pass)]
                    /\ last_auth' = [op |-> "auth", user |-> user.some, pass |-> pass,
                                     replaced |-> FALSE]
               ELSE /\ basic_auth' = HyperTransport_new.basic_auth
                    /\ last_auth' = None
       ELSE /\ url_result' = [ok |-> FALSE, url |-> url, kind |-> "Transport",
                              panicked |-> FALSE]
            /\ phase' = "failed"
            /\ uri' = HyperTransport_new.uri
            /\ basic_auth' = HyperTransport_new.basic_auth
            /\ last_auth' = None
    /\ timeout' = HyperTransport_new.timeout
    /\ rendered' = None
    /\ UNCHANGED callVars

\* Transport::fmt_target on the built transport.
fmt_target ==
    /\ phase = "transport"
    /\ rendered' = FmtTargetOf(Transport)
    /\ UNCHANGED builderVars
    /\ UNCHANGED callVars

InitBuilder ==
    /\ phase = "builder"
    /\ uri = HyperTransport_new.uri
    /\ timeout = HyperTransport_new.timeout
    /\ basic_auth = HyperTransport_new.basic_auth
    /\ url_result = None
    /\ last_auth = None
    /\ rendered = None
    /\ Idle

NextBuilder ==
    \/ Builder_new
    \/ \E t \in Timeouts : Builder_timeout(t)
    \/ \E url \in Urls : Builder_url(url)
    \/ \E user \in Users, pass \in Passwords : Builder_auth(user, pass)
    \/ \E cookie \in Cookies : Builder_cookie_auth(cookie)
    \/ Builder_build
    \/ \E url \in Urls, user \in {None} \cup {[some |-> x] : x \in Users}, pass \in Passwords :
          Client_hyper_http(url, user, pass)
    \/ fmt_target

SpecBuilder == InitBuilder /\ [][NextBuilder]_vars


(***************************************************************************)
(* JSON texts.  A text is a sequence of tokens: "[", "]", "," and one      *)
(* token per JSON value the transport treats as opaque.                    *)
(***************************************************************************)
ReqObjs == {"p", "q"}           \* two distinct serializable requests
Unserializable == "z"           \* a value whose Serialize impl fails
RespObjs == {"a", "b"}          \* two distinct objects of the Response shape
Scalar == "n"                   \* valid JSON of another shape (a number)
Statuses == {200, 500}          \* HTTP status of the response head

SeqsUpTo(S, n) == UNION { [1..k -> S] : k \in 0..n }

\* The text of a JSON array of the values vs.
RECURSIVE Joined(_)
Joined(vs) ==
    IF Len(vs) = 0 THEN <<>>
    ELSE IF Len(vs) = 1 THEN <<vs[1]>>
    ELSE <<vs[1], ",">> \o Joined(Tail(vs))
ArrayText(vs) == <<"[">> \o Joined(vs) \o <<"]">>

\* serde_json::to_vec(&req): a single request is its object, a slice of
\* requests is the array of them in slice order; any failing element fails.
ToVec(method, arg) ==
    IF method = "send_request" THEN
        IF arg = Unserializable THEN [ok |-> FALSE] ELSE [ok |-> TRUE, bytes |-> <<arg>>]
    ELSE
        IF Unserializable \in Range(arg) THEN [ok |-> FALSE]
        ELSE [ok |-> TRUE, bytes |-> ArrayText(arg)]

\* The elements of a JSON array read as Vec<Response>, from token i on: each
\* element must have the Response shape; acc is the Vec built so far, which
\* is dropped on an error.  Ends after the closing "]".
RECURSIVE SeqElements(_, _, _)
SeqElements(bytes, i, acc) ==
    IF i > Len(bytes) THEN [ok |-> FALSE]                       \* EOF while parsing a list
    ELSE IF bytes[i] = "]" /\ Len(acc) = 0 THEN [ok |-> TRUE, val |-> acc, next |-> i + 1]
    ELSE LET j == IF Len(acc) = 0 THEN i ELSE i + 1 IN          \* the element's token
         IF Len(acc) > 0 /\ bytes[i] = "]" THEN [ok |-> TRUE, val |-> acc, next |-> i + 1]
         ELSE IF Len(acc) > 0 /\ bytes[i] # "," THEN [ok |-> FALSE]   \* expected , or ]
         ELSE IF j > Len(bytes) THEN [ok |-> FALSE]
         ELSE IF bytes[j] \notin RespObjs THEN [ok |-> FALSE]   \* invalid type / syntax
         ELSE SeqElements(bytes, j + 1, Append(acc, bytes[j]))

\* SeqElements as it would be if it kept the elements read before an error.
RECURSIVE SeqElementsLenient(_, _, _)
SeqElementsLenient(bytes, i, acc) ==
    IF i > Len(bytes) THEN [ok |-> TRUE, val |-> acc, next |-> i]
    ELSE IF bytes[i] = "]" THEN [ok |-> TRUE, val |-> acc, next |-> i + 1]
    ELSE LET j == IF Len(acc) = 0 THEN i ELSE i + 1 IN
         IF Len(acc) > 0 /\ bytes[i] # "," THEN [ok |-> TRUE, val |-> acc, next |-> Len(bytes) + 1]
         ELSE IF j > Len(bytes) \/ bytes[j] \notin RespObjs
              THEN [ok |-> TRUE, val |-> acc, next |-> Len(bytes) + 1]
         ELSE SeqElementsLenient(bytes, j + 1, Append(acc, bytes[j]))

\* from_slice as it would be if a batch were accepted up to its first bad element.
FromSlice_partial(bytes, method) ==
    IF Len(bytes) = 0 THEN [ok |-> FALSE]
    ELSE IF method = "send_request" THEN
        IF bytes[1] \in RespObjs /\ Len(bytes) = 1 THEN [ok |-> TRUE, val |-> bytes[1]]
        ELSE [ok |-> FALSE]
    ELSE
        IF bytes[1] # "[" THEN [ok |-> FALSE]
        ELSE LET r == SeqElementsLenient(bytes, 2, <<>>) IN
             IF r.next = Len(bytes) + 1 THEN [ok |-> TRUE, val |-> r.val]
             ELSE [ok |-> FALSE]

\* from_slice as it would be if a batch's responses were returned ordered by id.
FromSlice_by_id(bytes, method) ==
    IF Len(bytes) = 0 THEN [ok |-> FALSE]
    ELSE IF method = "send_request" THEN
        IF bytes[1] \in RespObjs /\ Len(bytes) = 1 THEN [ok |-> TRUE, val |-> bytes[1]]
        ELSE [ok |-> FALSE]
    ELSE
        IF bytes[1] # "[" THEN [ok |-> FALSE]
        ELSE LET r == SeqElements(bytes, 2, <<>>) IN
             IF r.ok /\ r.next = Len(bytes) + 1
             THEN [ok |-> TRUE,
                   val |-> SelectSeq(r.val, LAMBDA x : x = "a") \o SelectSeq(r.val, LAMBDA x : x # "a")]
             ELSE [ok |-> FALSE]

\* serde_json::from_slice::<R>: R is Response for send_request and
\* Vec<Response> for send_batch.  Trailing tokens are an error.
FromSlice(bytes, method) ==
    IF Len(bytes) = 0 THEN [ok |-> FALSE]
    ELSE IF method = "send_request" THEN
        IF bytes[1] \in RespObjs /\ Len(bytes) = 1 THEN [ok |-> TRUE, val |-> bytes[1]]
        ELSE [ok |-> FALSE]
    ELSE
        IF bytes[1] # "[" THEN [ok |-> FALSE]
        ELSE LET r == SeqElements(bytes, 2, <<>>) IN
             IF r.ok /\ r.next = Len(bytes) + 1 THEN [ok |-> TRUE, val |-> r.val]
             ELSE [ok |-> FALSE]

\* From<serde_json::Error> for crate::Error, as `?` and `e.into()` use it.
JsonErrorKind(stage) == IF stage = "to_vec" THEN "Serialization" ELSE "Deserialization"

\* What the caller passes.
SingleArgs == ReqObjs \cup {Unserializable}
BatchArgs == SeqsUpTo(ReqObjs \cup {Unserializable}, MaxBatch)

\* What the server may answer: every single value and every array of up to
\* MaxBatch values, whole, cut short by one token, or followed by a stray "]".
WholeBodies ==
    { <<v>> : v \in RespObjs \cup {Scalar} }
    \cup { ArrayText(vs) : vs \in SeqsUpTo(RespObjs \cup {Scalar}, MaxBatch) }
Bodies ==
    WholeBodies
    \cup { Slice(b, 1, Len(b) - 1) : b \in WholeBodies }
    \cup { b \o <<"]">> : b \in WholeBodies }

(***************************************************************************)
(* HyperTransport::request, one action per stretch between awaits.         *)
(***************************************************************************)
\* hyper's Client::request refuses a Uri without scheme or authority.
AbsoluteForm(u) == u.scheme # "none" /\ Len(u.authority) > 0

\* Lines 38-55: deadline, serialization, the hyper::Request, client.request.
request(method, arg) ==
    /\ phase = "transport"
    /\ pc \in {"idle", "returned"}
    /\ request_deadline' = now + timeout
    /\ call' = [method |-> method, arg |-> arg]
    /\ status' = 0
    /\ response_body' = None
    /\ LET body == ToVec(method, arg) IN
       IF ~body.ok
       THEN /\ result' = [ok |-> FALSE, kind |-> JsonErrorKind("to_vec")]
            /\ pc' = "returned"
            /\ wire' = None
            /\ posts' = 0
            /\ exchange' = "none"
       ELSE /\ wire' = [method |-> "POST", uri |-> uri,
                        headers |-> [Connection |-> "Close",
                                     ContentType |-> "application/json",
                                     ContentLength |-> Len(body.bytes),
                                     Authorization |-> basic_auth],
                        body |-> body.bytes]
            /\ posts' = 1
            /\ result' = None
            /\ IF AbsoluteForm(uri)
               THEN pc' = "awaiting_response" /\ exchange' = "pending"
               ELSE pc' = "panicked" /\ exchange' = "rejected"   \* Err(..).unwrap()
    /\ UNCHANGED <<now, rendered>>
    /\ UNCHANGED builderVars

\* Transport::send_request
send_request(req) == request("send_request", req)

\* Transport::send_batch
send_batch(reqs) == request("send_batch", reqs)

\* Line 55: client.request(..).await yields the response head; the request
\* has been written and is gone.
response_head(st) ==
    /\ pc = "awaiting_response"
    /\ status' = st
    /\ pc' = "awaiting_body"
    /\ wire' = None
    /\ call' = [method |-> call.method]
    /\ UNCHANGED <<now, request_deadline, posts, exchange, response_body, result, rendered>>
    /\ UNCHANGED builderVars

\* Line 55: client.request(..).await yields Err; unwrap panics.
response_error(how) ==
    /\ pc = "awaiting_response"
    /\ exchange' = how
    /\ pc' = "panicked"
    /\ UNCHANGED <<now, request_deadline, call, wire, posts, status, response_body,
                   result, rendered>>
    /\ UNCHANGED builderVars

\* The decoding step as it would be if a body that fails to decode were
\* asked for again.
body_bytes_retry(bytes) ==
    /\ pc = "awaiting_body"
    /\ response_body' = [some |-> bytes]
    /\ exchange' = "ok"
    /\ LET r == FromSlice(bytes, call.method) IN
       IF r.ok
       THEN /\ result' = [ok |-> TRUE, val |-> r.val]
            /\ pc' = "returned"
            /\ UNCHANGED posts
       ELSE /\ result' = None
            /\ pc' = "awaiting_response"
            /\ posts' = posts + 1
    /\ UNCHANGED <<now, request_deadline, call, wire, status, rendered>>
    /\ UNCHANGED builderVars

\* Lines 56-63: to_bytes(body).await yields the bytes; they are decoded
\* whatever the status was.
body_bytes(bytes) ==
    /\ pc = "awaiting_body"
    /\ response_body' = [some |-> bytes]
    /\ exchange' = "ok"
    /\ LET r == FromSlice(bytes, call.method) IN
       result' = IF r.ok THEN [ok |-> TRUE, val |-> r.val]
                 ELSE [ok |-> FALSE, kind |-> JsonErrorKind("from_slice")]
    /\ pc' = "returned"
    /\ UNCHANGED <<now, request_deadline, call, wire, posts, status, rendered>>
    /\ UNCHANGED builderVars

\* Line 56: to_bytes(body).await yields Err; unwrap panics.
body_error ==
    /\ pc = "awaiting_body"
    /\ exchange' = "body_error"
    /\ pc' = "panicked"
    /\ UNCHANGED <<now, request_deadline, call, wire, posts, status, response_body,
                   result, rendered>>
    /\ UNCHANGED builderVars

\* Time passes while block_on waits; request_deadline is never read.
Tick ==
    /\ pc \in {"awaiting_response", "awaiting_body"}
    /\ now < MaxTime
    /\ now' = now + 1
    /\ UNCHANGED <<pc, request_deadline, call, wire, posts, status, exchange,
                   response_body, result, rendered>>
    /\ UNCHANGED builderVars

\* "http://h:8/p"
AbsoluteUrl == HttpPrefix \o <<"h", ":", "8", "/", "p">>

\* The transports the calls are made on: built from the default endpoint or
\* from AbsoluteUrl, with or without auth("u", None), with each timeout.
InitRequest ==
    /\ phase = "transport"
    /\ \/ uri = HyperTransport_new.uri /\ url_result = None       \* url() never called
       \/ uri = ParseUri(AbsoluteUrl).uri /\ url_result = [ok |-> TRUE, url |-> AbsoluteUrl]
    /\ timeout \in Timeouts
    /\ \E a \in {None, [op |-> "auth", user |-> <<"u">>, pass |-> None, replaced |-> FALSE]} :
          /\ last_auth = a
          /\ basic_auth = IF a = None THEN None ELSE [some |-> AuthHeader(a.user, a.pass)]
    /\ rendered = None
    /\ Idle

NextRequest ==
    \/ \E req \in SingleArgs : send_request(req)
    \/ \E reqs \in BatchArgs : send_batch(reqs)
    \/ \E st \in Statuses : response_head(st)
    \/ \E how \in {"refused", "dropped"} : response_error(how)
    \/ \E bytes \in Bodies : body_bytes(bytes)
    \/ body_error
    \/ Tick

SpecRequest == InitRequest /\ [][NextRequest]_vars


(***************************************************************************)
(* Properties.                                                             *)
(***************************************************************************)
Awaiting == pc \in {"awaiting_response", "awaiting_body"}

\* C1: the deadline (call start + timeout) bounds the whole exchange: a call
\* is never still waiting on the server once the clock has passed its deadline.
C1_DeadlineBoundsExchange == Awaiting => now <= request_deadline

\* C2: a failed HTTP exchange (connection refused, connection dropped, body
\* read error) is returned to the caller as Err(Transport); the calling
\* thread does not panic.
C2_ExchangeFailureIsTransportError ==
    exchange \in {"refused", "dropped", "body_error"} =>
        /\ pc = "returned"
        /\ result = [ok |-> FALSE, kind |-> "Transport"]

\* C3: for a text that is not a valid URL, Builder::url returns an error of
\* the kind InvalidEndpoint and does not panic.
C3_InvalidUrlIsInvalidEndpoint ==
    (url_result # None /\ ~url_result.ok) =>
        /\ url_result.kind = "InvalidEndpoint"
        /\ ~url_result.panicked

\* C4: for every URL Builder::url accepts, and for the default endpoint,
\* fmt_target on the built transport does not panic and renders
\* "http://<host>:<port><path>" from the host, port and path of the URL.
C4_FmtTargetRendersEveryAcceptedUrl ==
    rendered # None =>
        /\ ~rendered.panicked
        /\ UriHost(uri) # None
        /\ UriPort(uri) # None
        /\ rendered.text = HttpPrefix \o UriHost(uri).some \o <<":">>
                           \o U16ToString(UriPort(uri).some) \o UriPath(uri)

\* Known base64 encodings of the credential texts the builder is given.
Base64Fixtures ==
    { << <<"a", "l", "i", "c", "e", ":", "s", "e", "c", "r", "e", "t">>,
         <<"Y", "W", "x", "p", "Y", "2", "U", "6", "c", "2", "V", "j", "c", "m", "V", "0">> >>,
      << <<"a", "l", "i", "c", "e", ":">>,
         <<"Y", "W", "x", "p", "Y", "2", "U", "6">> >>,
      << <<"u", ":", "s", "e", "c", "r", "e", "t">>,
         <<"d", "T", "p", "z", "Z", "W", "N", "y", "Z", "X", "Q", "=">> >>,
      << <<"u", ":">>, <<"d", "T", "o", "=">> >>,
      << <<"t", "o", "k", "1", "2", "3">>,
         <<"d", "G", "9", "r", "M", "T", "I", "z">> >> }

\* The text the last auth / cookie_auth call encodes.
CredentialText(la) ==
    IF la.op = "auth"
    THEN la.user \o <<":">> \o (IF la.pass = None THEN <<>> ELSE la.pass.some)
    ELSE la.cookie

\* C5: the authorization value held is absent when auth / cookie_auth was
\* never called, and otherwise is "Basic " followed by the base64 text of
\* the last call's credentials; no earlier value survives.
C5_LastAuthCallWins ==
    IF last_auth = None THEN basic_auth = None
    ELSE /\ basic_auth # None
         /\ \E f \in Base64Fixtures :
               /\ f[1] = CredentialText(last_auth)
               /\ basic_auth.some = <<"B", "a", "s", "i", "c", " ">> \o f[2]

\* C5 witness: a built transport whose cookie_auth("tok123") replaced an
\* earlier value.
C5_Witness ==
    /\ phase = "transport"
    /\ last_auth # None
    /\ last_auth.op = "cookie_auth"
    /\ last_auth.replaced
    /\ basic_auth = [some |-> <<"B", "a", "s", "i", "c", " ",
                                "d", "G", "9", "r", "M", "T", "I", "z">>]

\* C6: when the exchange completes with a non-2xx status the call returns
\* Err(Transport), whatever the body is.
C6_Non2xxIsTransportError ==
    (pc = "returned" /\ status # 0 /\ status \notin 200..299) =>
        result = [ok |-> FALSE, kind |-> "Transport"]

\* The values of a well-shaped answer, stated without the decoder: one
\* Response object for send_request, the elements of an array of Response
\* objects for send_batch.  None when the body has no such reading.
WellShapedValue(bytes, method) ==
    IF method = "send_request"
    THEN IF \E o \in RespObjs : bytes = <<o>> THEN [some |-> bytes[1]] ELSE None
    ELSE IF \E vs \in SeqsUpTo(RespObjs, Len(bytes)) : bytes = ArrayText(vs)
         THEN [some |-> CHOOSE vs \in SeqsUpTo(RespObjs, Len(bytes)) : bytes = ArrayText(vs)]
         ELSE None

\* C7: decoding is all-or-nothing: a body that is not valid JSON or not of
\* the expected shape gives Err(Deserialization), and an Ok result is the
\* whole decoded value, never a prefix or subset of a batch's responses.
C7_DecodingAllOrNothing ==
    (pc = "returned" /\ response_body # None) =>
        LET v == WellShapedValue(response_body.some, call.method) IN
        IF v = None THEN result = [ok |-> FALSE, kind |-> "Deserialization"]
        ELSE result = [ok |-> TRUE, val |-> v.some]

\* C7 witness: a batch answered with valid JSON whose second element has the
\* wrong shape was refused as a whole.
C7_Witness ==
    /\ pc = "returned"
    /\ call.method = "send_batch"
    /\ response_body = [some |-> <<"[", "a", ",", "n", "]">>]
    /\ result = [ok |-> FALSE, kind |-> "Deserialization"]

\* C8: send_batch is order-transparent: the body sent is the JSON array of
\* the caller's requests in the caller's order, and the Vec returned lists
\* the responses in the order of the server's array.
C8_BatchOrderTransparent ==
    /\ (pc = "awaiting_response" /\ call.method = "send_batch") =>
          LET n == Len(call.arg) IN
          /\ Len(wire.body) = (IF n = 0 THEN 2 ELSE 2 * n + 1)
          /\ wire.body[1] = "[" /\ wire.body[Len(wire.body)] = "]"
          /\ \A k \in 1..n : wire.body[2 * k] = call.arg[k]
          /\ \A k \in 1..(n - 1) : wire.body[2 * k + 1] = ","
    /\ (pc = "returned" /\ call.method = "send_batch" /\ result # None /\ result.ok) =>
          /\ Len(result.val) = (Len(response_body.some) - 1) \div 2
          /\ \A k \in 1..Len(result.val) : result.val[k] = response_body.some[2 * k]

\* C8 witness: a batch whose answer lists "b" before "a" returned them so.
C8_Witness ==
    /\ pc = "returned"
    /\ call.method = "send_batch"
    /\ response_body = [some |-> <<"[", "b", ",", "a", "]">>]
    /\ result = [ok |-> TRUE, val |-> <<"b", "a">>]

\* Every authorization value the builder can compute, and none.
AuthValues ==
    {None}
    \cup { [some |-> AuthHeader(u, pw)] : u \in Users, pw \in Passwords }
    \cup { [some |-> CookieHeader(c)] : c \in Cookies }

\* C9: what fmt_target renders does not depend on the authorization value
\* (the same transport with any other value renders the same) and the
\* rendered text does not contain it.
C9_FmtTargetIgnoresAuth ==
    rendered # None =>
        /\ \A a \in AuthValues : FmtTargetOf([Transport EXCEPT !.basic_auth = a]) = rendered
        /\ (~rendered.panicked /\ basic_auth # None) =>
               ~Contains(rendered.text, basic_auth.some)

\* C9 witness: a transport holding an authorization value was rendered.
C9_Witness ==
    /\ rendered # None
    /\ ~rendered.panicked
    /\ basic_auth # None

\* C10: a call issues at most one POST: none when serialization fails (it
\* returns a Serialization error with nothing sent), exactly one otherwise,
\* and no second one after the exchange or the decoding fails.
C10_AtMostOnePost ==
    /\ posts <= 1
    /\ (pc = "returned" /\ exchange = "none") =>
          /\ posts = 0
          /\ wire = None
          /\ result = [ok |-> FALSE, kind |-> "Serialization"]
    /\ (pc \in {"awaiting_response", "awaiting_body", "panicked"}
        \/ (pc = "returned" /\ exchange # "none")) => posts = 1

\* C10 witness: a call whose answer failed to decode returned after its one POST.
C10_Witness ==
    /\ pc = "returned"
    /\ exchange = "ok"
    /\ result = [ok |-> FALSE, kind |-> "Deserialization"]
    /\ posts = 1


(***************************************************************************)
(* The whole life of a transport: configured by the builder, then used.    *)
(* SpecBuilder and SpecRequest are its two phases, checked one by one;     *)
(* every initial state of SpecRequest is a state SpecBuilder reaches by    *)
(* Builder_build.                                                          *)
(***************************************************************************)
Init == InitBuilder
Next == NextBuilder \/ NextRequest
Spec == Init /\ [][Next]_vars

====
